---------------------------- MODULE Spec2Model ----------------------------
(***************************************************************************)
(* A model of lib-wallet-pay-btc: the address ledger's Balance             *)
(* (src/src/address-manager.js), the block-height tracking                 *)
(* (src/src/utils.js, src/unnamed/part_001), the Electrum transport        *)
(* (src/unnamed/part_000), the transaction builder                         *)
(* (src/src/transaction.js), the wallet's address hand-out, sync and       *)
(* destroy (src/unnamed/part_001) and the transaction history              *)
(* (src/src/address-manager.js).                                           *)
(***************************************************************************)
EXTENDS Integers, Sequences, FiniteSets, TLC

(***************************************************************************)
(* Input domains and bounds.                                               *)
(***************************************************************************)
\* the three buckets of a Balance, in the order the constructor creates them
Buckets == {"confirmed", "pending", "mempool"}
\* transaction ids and amounts handed to addTxid
Txids == {"t1", "t2"}
Amounts == {1, 2}
\* bucket amounts are kept within -MaxBal .. MaxBal
MaxBal == 3

\* block heights a notification can carry: 0 .. MaxHeight
MaxHeight == 3

\* the callers of rpc / _makeRequest, the methods they ask for and the ids
\* that Date.now() + '-' + random can give a request
Callers == {"c1", "c2"}
Methods == {"blockchain.transaction.get", "blockchain.scripthash.get_balance"}
Ids == {"i1", "i2"}
\* the heights a blockchain.headers.subscribe push can carry
PushHeights == {1, 2}

\* the values, in satoshi, of the wallet's unspent outputs, and how many it has
UtxoValues == {300, 1000}
MaxUtxos == 3
\* the amounts, in satoshi, and the fees, in satoshi per vbyte, a send() is asked for
SendAmounts == {500, 700, 1200}
FeeRates == {0 - 1, 0, 1, 2, 100001}
\* config.max_fee_limit of a Transaction; 0 stands for a config without one
ConfigLimits == {0, 1}
\* no Transaction is built once this many outgoing records are stored
MaxSent == 2

\* the callers of getNewAddress and _getInternalAddress, and the index up to
\* which paths are handed out
AddrCallers == {"a1", "a2"}
MaxIndex == 3
\* the addresses one syncAccount call scans at most
MaxScan == 2

\* the callers of _txGet, the confirmations a reply can carry (0: none) and
\* the length up to which the cache index grows
TxGetCallers == {"g1", "g2"}
Confirmations == {0, 1, 2}
MaxCacheIndex == 3

\* the heights of the transactions given to storeTx: 0 .. MaxTxHeight, and
\* RolloverHeights
MaxTxHeight == 1

\* a height whose decimal successor is one digit longer, and that successor
RolloverHeights == {9, 10}

\* the pieces of one socket read: 1 .. MaxPieces
MaxPieces == 2

\* the clock of the RequestCache runs from 0 to MaxNow
MaxNow == 3

\* config.cache_timeout, config.max_cache_size and config.cache_interval of a
\* RequestCache (0: absent), and value.expiry of a value given to set (0: none)
CacheTimeouts == {0, 1}
CacheSizes == {0, 1}
CacheIntervals == {1}
Expiries == {0, 2}

VARIABLES
  bal,        \* a Balance object: confirmed, pending, mempool, txid
  prevBal,    \* history: the Balance as it was before the last addTxid call
  lastCall,   \* history: the arguments of the last addTxid call
  latest_block,       \* WalletPayBitcoin.latest_block
  currentBlock,       \* the height last handed to _syncManager.updateBlock
  ready,              \* WalletPayBitcoin.ready
  block,              \* BlockCounter.block
  store_latest_block, \* the 'latest_block' key of the state store
  newBlockEvent,      \* the last 'new-block' event BlockCounter emitted
  persistPending,     \* a setBlock call is past its await, before setLatestBlock
  setBlockRet,        \* what the last setBlock call returned
  status,        \* the connection status of the Electrum provider
  statusEvent,   \* the last 'status' event: <<prevStatus, newStatus>>
  client,        \* this._client: the socket and what has happened to it
  requests,      \* this.requests: id -> the caller's [resolve, reject] and method
  calls,         \* the promise _makeRequest returned to each caller
  wire,          \* the ids of the payloads written to the current socket
  emitted,       \* the events, besides 'status', that the last frame made the provider emit
  closing,       \* where a close() call is: "no", "stopClient" (awaiting it), "done"
  block_height,  \* Electrum.block_height
  utxos,         \* the sync manager's unspent outputs: their values, in its order
  lockedUtxos,   \* the sync manager's locked UTXOs: indices of utxos
  broadcasted,   \* the outgoing records addSentTx has stored
  max_fee_limit, \* Transaction._max_fee_limit
  txData,        \* Transaction._txData
  sendCall,      \* the send() call of the Transaction: where it is, its locals, and
                 \* history: how many re-requests of the current pass returned a set
  lastPath,      \* HdWallet: the last path of the external and of the internal chain
  addrCalls,     \* the getNewAddress / _getInternalAddress call of each caller
  handedOut,     \* history: the indices taken for addresses on each chain, in order
  isSyncing,     \* syncManager._isSyncing
  halt,          \* the sync manager's stop flag
  syncCall,      \* the syncTransactions call: where it is, and history: the sync-end
                 \* events it emitted and whether it started the internal scan
  destroyCall,   \* the destroy() call: where it is
  closed,        \* what destroy() has closed, in order
  cacheStore,    \* the store of the RequestCache: key -> the value stored
  cache_index,   \* the 'cache_index' entry of that store
  txGetCalls,    \* the _txGet call of each caller
  history,       \* AddressManager.history: key -> value
  lastStoreTx,   \* history: the last storeTx call, and whether i:0:<txid> was there
  lastGetTxHeight, \* history: the last getTxHeight call and what it returned
  lastRead,      \* history: the pieces of the last socket read
  partial,       \* the line whose first part the last read ended with, if any
  requestCache,  \* a RequestCache: its config and its fields
  rcStore,       \* its store: key -> [value, expiry], and history: when it was set
  rcIndex,       \* the 'cache_index' entry of its store
  now,           \* Date.now()
  lastGet        \* history: the last get call of the RequestCache

ledgerVars == <<bal, prevBal, lastCall>>

walletBlockVars == <<latest_block, currentBlock, ready>>

counterVars == <<block, store_latest_block, newBlockEvent, persistPending, setBlockRet>>

blockVars == <<walletBlockVars, counterVars>>

electrumVars ==
  <<status, statusEvent, client, requests, calls, wire, emitted, closing, block_height>>

txVars == <<utxos, lockedUtxos, broadcasted, max_fee_limit, txData, sendCall>>

addrVars == <<lastPath, addrCalls, handedOut>>

syncVars == <<isSyncing, halt, syncCall, destroyCall, closed>>

walletVars == <<addrVars, syncVars>>

txGetVars == <<cacheStore, cache_index, txGetCalls>>

historyVars == <<history, lastStoreTx, lastGetTxHeight>>

readVars == <<lastRead, partial>>

cacheVars == <<requestCache, rcStore, rcIndex, now, lastGet>>

vars ==
  <<ledgerVars, blockVars, electrumVars, txVars, walletVars, txGetVars, historyVars,
    readVars, cacheVars>>

\* what the actions of one part leave alone
notLedger ==
  <<blockVars, electrumVars, txVars, walletVars, txGetVars, historyVars, readVars,
    cacheVars>>

notBlock ==
  <<ledgerVars, electrumVars, txVars, walletVars, txGetVars, historyVars, readVars,
    cacheVars>>

notElectrum ==
  <<ledgerVars, blockVars, txVars, walletVars, txGetVars, historyVars, readVars,
    cacheVars>>

notTx ==
  <<ledgerVars, blockVars, electrumVars, walletVars, txGetVars, historyVars, readVars,
    cacheVars>>

notWallet ==
  <<ledgerVars, blockVars, electrumVars, txVars, txGetVars, historyVars, readVars,
    cacheVars>>

notTxGet ==
  <<ledgerVars, blockVars, electrumVars, txVars, walletVars, historyVars, readVars,
    cacheVars>>

notHistory ==
  <<ledgerVars, blockVars, electrumVars, txVars, walletVars, txGetVars, readVars,
    cacheVars>>

notRead ==
  <<ledgerVars, blockVars, txVars, walletVars, txGetVars, historyVars, cacheVars>>

notCache ==
  <<ledgerVars, blockVars, electrumVars, txVars, walletVars, txGetVars, historyVars,
    readVars>>

(***************************************************************************)
(* Balance (src/src/address-manager.js)                                    *)
(***************************************************************************)
\* new Balance(0, 0, 0)
NewBalance ==
  [confirmed |-> 0, pending |-> 0, mempool |-> 0,
   txid |-> [confirmed |-> <<>>, pending |-> <<>>, mempool |-> <<>>]]

NoCall == [op |-> "none"]

\* this.txid[state].filter(([tx]) => tx !== txid): the records that are kept
FilterTxid(list, txid) == SelectSeq(list, LAMBDA r : r[1] # txid)

\* how many records of a list the filter of addTxid drops
Dropped(list, txid) == Len(list) - Len(FilterTxid(list, txid))

\* mutant: the prior records are left in the lists
addTxid_keepPrior(self, state, txid, amount) ==
  [confirmed |-> self.confirmed + (IF state = "confirmed" THEN amount ELSE 0),
   pending   |-> self.pending + (IF state = "pending" THEN amount ELSE 0),
   mempool   |-> self.mempool + (IF state = "mempool" THEN amount ELSE 0),
   txid      |-> [s \in Buckets |->
                    IF s = state THEN Append(self.txid[s], <<txid, amount>>)
                    ELSE self.txid[s]]]

\* mutant: a removed record is not subtracted from its bucket
addTxid_noMinus(self, state, txid, amount) ==
  [confirmed |-> self.confirmed + (IF state = "confirmed" THEN amount ELSE 0),
   pending   |-> self.pending + (IF state = "pending" THEN amount ELSE 0),
   mempool   |-> self.mempool + (IF state = "mempool" THEN amount ELSE 0),
   txid      |-> [s \in Buckets |->
                    IF s = state
                    THEN Append(FilterTxid(self.txid[s], txid), <<txid, amount>>)
                    ELSE FilterTxid(self.txid[s], txid)]]

\* mutant: only the target bucket's list is filtered
addTxid_ownBucket(self, state, txid, amount) ==
  LET minus(s) == IF s = state THEN Dropped(self.txid[s], txid) * amount ELSE 0
  IN [confirmed |-> self.confirmed - minus("confirmed")
                      + (IF state = "confirmed" THEN amount ELSE 0),
      pending   |-> self.pending - minus("pending")
                      + (IF state = "pending" THEN amount ELSE 0),
      mempool   |-> self.mempool - minus("mempool")
                      + (IF state = "mempool" THEN amount ELSE 0),
      txid      |-> [s \in Buckets |->
                       IF s = state
                       THEN Append(FilterTxid(self.txid[s], txid), <<txid, amount>>)
                       ELSE self.txid[s]]]

\* Balance.addTxid: every bucket's list is filtered; each dropped record
\* calls minusBalance(bucket, amount) with the amount of this call; then
\* addBalance(state, amount) and push([txid, amount])
addTxid(self, state, txid, amount) ==
  LET minus(s) == Dropped(self.txid[s], txid) * amount
  IN [confirmed |-> self.confirmed - minus("confirmed")
                      + (IF state = "confirmed" THEN amount ELSE 0),
      pending   |-> self.pending - minus("pending")
                      + (IF state = "pending" THEN amount ELSE 0),
      mempool   |-> self.mempool - minus("mempool")
                      + (IF state = "mempool" THEN amount ELSE 0),
      txid      |-> [s \in Buckets |->
                       IF s = state
                       THEN Append(FilterTxid(self.txid[s], txid), <<txid, amount>>)
                       ELSE FilterTxid(self.txid[s], txid)]]

\* Balance.getTx(state, key): the last record of key in a bucket, or none
HasTx(self, state, key) == \E i \in 1..Len(self.txid[state]) : self.txid[state][i][1] = key

\* Balance.formatted().consolidated
Consolidated(self) == self.confirmed + self.pending + self.mempool

InBounds(self) == \A s \in Buckets : self[s] \in (0 - MaxBal)..MaxBal

\* a call of addTxid on the Balance
AddTxid(state, txid, amount) ==
  /\ InBounds(addTxid(bal, state, txid, amount))
  /\ bal' = addTxid(bal, state, txid, amount)
  /\ prevBal' = bal
  /\ lastCall' = [op |-> "addTxid", state |-> state, txid |-> txid, amount |-> amount]
  /\ UNCHANGED notLedger

InitLedger ==
  /\ bal = NewBalance
  /\ prevBal = NewBalance
  /\ lastCall = NoCall

NextLedger ==
  \E state \in Buckets, txid \in Txids, amount \in Amounts : AddTxid(state, txid, amount)

(***************************************************************************)
(* Block height: the wallet's new-block handler (src/unnamed/part_001) and *)
(* BlockCounter (src/src/utils.js)                                         *)
(***************************************************************************)
Heights == 0..MaxHeight

\* no 'new-block' event has been emitted yet
NoEvent == [current |-> 0 - 1, diff |-> 0, last |-> 0]

\* WalletPayBitcoin.initialize: provider.on('new-block', (block) => ...)
NewBlockHandler(height) ==
  /\ latest_block' = height
  /\ currentBlock' = latest_block'
  /\ ready' = TRUE
  /\ UNCHANGED <<notBlock, counterVars>>

\* BlockCounter.setBlock up to its await: a height below this.block is
\* logged as a reorg and refused; otherwise this.block is set and
\* 'new-block' is emitted with {current, diff, last}
SetBlock(height) ==
  LET diff == height - block
      last == block
  IN IF diff < 0
     THEN /\ setBlockRet' = "undefined"
          /\ UNCHANGED <<block, store_latest_block, newBlockEvent, persistPending>>
          /\ UNCHANGED <<notBlock, walletBlockVars>>
     ELSE /\ block' = height
          /\ newBlockEvent' = [current |-> height, diff |-> diff, last |-> last]
          /\ persistPending' = TRUE
          /\ setBlockRet' = "pending"
          /\ UNCHANGED <<store_latest_block, notBlock, walletBlockVars>>

\* BlockCounter.setBlock after its await: this.state.setLatestBlock(this.block)
SetBlockPersist ==
  /\ persistPending
  /\ store_latest_block' = block
  /\ persistPending' = FALSE
  /\ setBlockRet' = "true"
  /\ UNCHANGED <<block, newBlockEvent, notBlock, walletBlockVars>>

InitBlock ==
  /\ latest_block = 0
  /\ currentBlock = 0
  /\ ready = FALSE
  /\ block = 0
  /\ store_latest_block = 0
  /\ newBlockEvent = NoEvent
  /\ persistPending = FALSE
  /\ setBlockRet = "none"

NextBlock ==
  \/ \E height \in Heights : NewBlockHandler(height)
  \/ \E height \in Heights : SetBlock(height)
  \/ SetBlockPersist

(***************************************************************************)
(* Electrum transport (src/unnamed/part_000)                               *)
(***************************************************************************)
\* ConnectionManager.ConnectionStatus.STATUS
STATUS == {"DISCONNECTED", "CONNECTING", "CONNECTED", "ERROR", "DESTROYED"}

\* JSON values of a frame's result and error fields; "undefined" is an
\* absent field
ResultVals == {"undefined", "null", "0", "false", "", "obj"}
ErrorVals == {"undefined", "null", "errObj"}

\* JavaScript truthiness of these values
Truthy(v) == v \in {"obj", "errObj"}

\* a || b
Or(a, b) == IF Truthy(a) THEN a ELSE b

\* the frames a socket read can deliver, one line each
ResponseFrames ==
  [json : {TRUE}, method : {"undefined"}, id : Ids,
   result : ResultVals, error : ErrorVals, params : {0}]

\* params is the height of a headers push; a scripthash push carries 0 here
PushFrames ==
  [json : {TRUE}, method : {"blockchain.headers.subscribe"},
   id : Ids \cup {"undefined"}, result : {"undefined"}, error : {"undefined"},
   params : PushHeights]
  \cup
  [json : {TRUE}, method : {"blockchain.scripthash.subscribe"},
   id : Ids \cup {"undefined"}, result : {"undefined"}, error : {"undefined"},
   params : {0}]

GarbageFrames ==
  [json : {FALSE}, method : {"undefined"}, id : {"undefined"},
   result : {"undefined"}, error : {"undefined"}, params : {0}]

Frames == ResponseFrames \cup PushFrames \cup GarbageFrames

\* a caller that has made no request
Idle == [st |-> "idle", method |-> "none", val |-> "undefined", error |-> "undefined",
         errMethod |-> "none"]

Pending(method) == [Idle EXCEPT !.st = "pending", !.method = method]

\* resolve(val)
Resolved(call, val) == [Idle EXCEPT !.st = "resolved", !.val = val]

\* new Error('not connected')
NotConnected(method) ==
  [Idle EXCEPT !.st = "rejected", !.val = "not connected"]

\* reject(new Error(`RPC Error: ${JSON.stringify(resp.error)} - ${method}`))
RpcError(call, error, method) ==
  [Idle EXCEPT !.st = "rejected", !.val = "RPC Error", !.error = error,
               !.errMethod = method]

\* no socket has been created yet
NoClient == [sock |-> "none", localEnd |-> FALSE, endFired |-> FALSE,
             errFired |-> FALSE, closeListener |-> FALSE]

\* this.requests.delete(id)
Delete(reqs, id) == [i \in DOMAIN reqs \ {id} |-> reqs[i]]

\* this.requests.set(id, [resolve, reject, method])
Set(reqs, id, entry) ==
  [i \in DOMAIN reqs \cup {id} |-> IF i = id THEN entry ELSE reqs[i]]

\* Electrum._subscribe: the event each subscription event is forwarded as
Forwarded(method) ==
  IF method = "blockchain.headers.subscribe" THEN "new-block" ELSE "new-tx"

\* ConnectionManager is lib-wallet's class; the source holds its callers only.
\* Its status is modelled as a field that setStatus replaces.
\* ConnectionManager.isConnected
isConnected == status = "CONNECTED"

\* ConnectionManager.setStatus: the status is replaced and a 'status' event
\* is emitted with (prevStatus, newStatus)
setStatus(newStatus) ==
  /\ status' = newStatus
  /\ statusEvent' = <<status, newStatus>>

\* Electrum.connect: nothing when connected; otherwise CONNECTING and a new
\* socket with its data, end and error handlers
\* (called when connected, or when there is no socket or a closed one, and
\* not after close())
Connect ==
  /\ closing = "no"
  /\ isConnected \/ client.sock \in {"none", "closed"}
  /\ IF isConnected
     THEN UNCHANGED <<status, statusEvent, client, wire>>
     ELSE /\ setStatus("CONNECTING")
          /\ client' = [NoClient EXCEPT !.sock = "connecting"]
          /\ wire' = {}
  /\ UNCHANGED <<requests, calls, emitted, closing, block_height, notElectrum>>

\* the connection listener given to createConnection
Connected ==
  /\ client.sock = "connecting"
  /\ ~client.errFired
  /\ client' = [client EXCEPT !.sock = "open"]
  /\ setStatus("CONNECTED")
  /\ UNCHANGED <<requests, calls, wire, emitted, closing, block_height, notElectrum>>

\* mutant: a request is registered and written whatever the status
MakeRequest_noStatusCheck(caller, method) ==
  /\ calls[caller].st # "pending"
  /\ \E id \in Ids :
       /\ requests' = Set(requests, id, [caller |-> caller, method |-> method])
       /\ wire' = wire \cup {id}
       /\ calls' = [calls EXCEPT ![caller] = Pending(method)]
  /\ UNCHANGED <<status, statusEvent, client, emitted, closing, block_height, notElectrum>>

\* Electrum._makeRequest (rpc): throws 'not connected' inside the promise
\* unless connected; otherwise registers [resolve, reject, method] under a
\* new id and writes the payload to the socket
MakeRequest(caller, method) ==
  /\ calls[caller].st # "pending"
  /\ IF ~isConnected
     THEN /\ calls' = [calls EXCEPT ![caller] = NotConnected(method)]
          /\ UNCHANGED <<requests, wire>>
     ELSE \E id \in Ids :
            /\ requests' = Set(requests, id, [caller |-> caller, method |-> method])
            /\ wire' = (IF client.sock = "open" /\ ~client.localEnd
                        THEN wire \cup {id} ELSE wire)
            /\ calls' = [calls EXCEPT ![caller] = Pending(method)]
  /\ UNCHANGED <<status, statusEvent, client, emitted, closing, block_height, notElectrum>>

\* mutant: an error reply is reported with the name of the other method
HandleResponse_wrongMethod(resp) ==
  IF ~resp.json
  THEN /\ emitted' = <<[name |-> "request-error", arg |-> "parse"]>>
       /\ UNCHANGED <<requests, calls, block_height>>
  ELSE IF resp.method # "undefined"
  THEN /\ emitted' = [name |-> resp.method, arg |-> resp.params]
       /\ block_height' = (IF resp.method = "blockchain.headers.subscribe"
                           THEN resp.params ELSE block_height)
       /\ requests' = Delete(requests, resp.id)
       /\ UNCHANGED calls
  ELSE IF Truthy(resp.error)
  THEN /\ requests' = Delete(requests, resp.id)
       /\ calls' = (IF resp.id \in DOMAIN requests
                    THEN LET c == requests[resp.id].caller
                         IN [calls EXCEPT ![c] =
                               RpcError(calls[c], resp.error,
                                 CHOOSE m \in Methods : m # requests[resp.id].method)]
                    ELSE calls)
       /\ UNCHANGED <<emitted, block_height>>
  ELSE IF resp.id \notin DOMAIN requests
  THEN /\ emitted' = <<[name |-> "request-error", arg |-> "no handler"]>>
       /\ UNCHANGED <<requests, calls, block_height>>
  ELSE /\ LET c == requests[resp.id].caller
          IN calls' = [calls EXCEPT ![c] =
                         Resolved(calls[c], IF resp.result = "null" THEN "null"
                                            ELSE Or(resp.result, resp.error))]
       /\ requests' = Delete(requests, resp.id)
       /\ UNCHANGED <<emitted, block_height>>

\* Electrum._handleResponse, with the handlers _subscribe registers for the
\* events it emits
HandleResponse(resp) ==
  IF ~resp.json
  THEN \* JSON.parse throws
       /\ emitted' = <<[name |-> "request-error", arg |-> "parse"]>>
       /\ UNCHANGED <<requests, calls, block_height>>
  ELSE IF resp.method # "undefined"
  THEN \* resp.method includes '.subscribe'
       /\ emitted' = <<[name |-> resp.method, arg |-> resp.params],
                        [name |-> Forwarded(resp.method), arg |-> resp.params]>>
       /\ block_height' = (IF resp.method = "blockchain.headers.subscribe"
                           THEN resp.params ELSE block_height)
       /\ requests' = Delete(requests, resp.id)
       /\ UNCHANGED calls
  ELSE IF Truthy(resp.error)
  THEN /\ requests' = Delete(requests, resp.id)
       /\ calls' = (IF resp.id \in DOMAIN requests
                    THEN LET c == requests[resp.id].caller
                         IN [calls EXCEPT ![c] =
                               RpcError(calls[c], resp.error, requests[resp.id].method)]
                    ELSE calls)
       /\ UNCHANGED <<emitted, block_height>>
  ELSE IF resp.id \notin DOMAIN requests
  THEN /\ emitted' = <<[name |-> "request-error", arg |-> "no handler"]>>
       /\ UNCHANGED <<requests, calls, block_height>>
  ELSE /\ LET c == requests[resp.id].caller
          IN calls' = [calls EXCEPT ![c] =
                         Resolved(calls[c], IF resp.result = "null" THEN "null"
                                            ELSE Or(resp.result, resp.error))]
       /\ requests' = Delete(requests, resp.id)
       /\ UNCHANGED <<emitted, block_height>>

\* the socket's 'data' handler, for a read that holds one line
SocketData(resp) ==
  /\ client.sock = "open"
  /\ ~client.endFired
  /\ HandleResponse(resp)
  /\ UNCHANGED <<status, statusEvent, client, wire, closing, notElectrum>>

\* the socket's 'end' handler (once)
SocketEnd ==
  /\ client.sock = "open"
  /\ ~client.endFired
  /\ ~client.errFired
  /\ client' = [client EXCEPT !.endFired = TRUE]
  /\ setStatus("DISCONNECTED")
  /\ UNCHANGED <<requests, calls, wire, emitted, closing, block_height, notElectrum>>

\* the socket's 'error' handler (once)
SocketError ==
  /\ client.sock \in {"connecting", "open"}
  /\ ~client.errFired
  /\ client' = [client EXCEPT !.errFired = TRUE]
  /\ setStatus("ERROR")
  /\ UNCHANGED <<requests, calls, wire, emitted, closing, block_height, notElectrum>>

\* the socket closes, after its end or error event or after end() was called
\* on it (what has happened to a closed socket is no longer kept); the
\* 'close' listener of _stopClient resolves and sets DISCONNECTED, and a
\* close() that awaited it goes on to this.cache.stop()
SocketClose ==
  /\ client.sock \in {"connecting", "open"}
  /\ client.endFired \/ client.errFired \/ client.localEnd
  /\ client' = [NoClient EXCEPT !.sock = "closed"]
  /\ IF client.closeListener
     THEN /\ setStatus("DISCONNECTED")
          /\ closing' = (IF closing = "stopClient" THEN "done" ELSE closing)
     ELSE UNCHANGED <<status, statusEvent, closing>>
  /\ UNCHANGED <<requests, calls, wire, emitted, block_height, notElectrum>>

\* Electrum._stopClient: nothing without a socket; otherwise a once('close')
\* listener and this._client.end()
StopClient ==
  client' = (IF client.sock = "none" THEN client
             ELSE [client EXCEPT !.closeListener = TRUE, !.localEnd = TRUE])

\* Electrum.reconnect (not called after close())
Reconnect ==
  /\ closing = "no"
  /\ StopClient
  /\ UNCHANGED <<status, statusEvent, requests, calls, wire, emitted, closing,
                 block_height, notElectrum>>

\* ConnectionManager.destroy
destroy == setStatus("DESTROYED")

\* Electrum.close (called once): super.destroy(), then _stopClient, which
\* resolves at once when there is no socket, then this.cache.stop()
Close ==
  /\ closing = "no"
  /\ destroy
  /\ StopClient
  /\ closing' = (IF client.sock = "none" THEN "done" ELSE "stopClient")
  /\ UNCHANGED <<requests, calls, wire, emitted, block_height, notElectrum>>

InitElectrum ==
  /\ status = "DISCONNECTED"
  /\ statusEvent = <<"none", "none">>
  /\ client = NoClient
  /\ requests = <<>>
  /\ calls = [c \in Callers |-> Idle]
  /\ wire = {}
  /\ emitted = <<>>
  /\ closing = "no"
  /\ block_height = 0

NextElectrum ==
  \/ Connect
  \/ Connected
  \/ \E caller \in Callers, method \in Methods : MakeRequest(caller, method)
  \/ \E resp \in Frames : SocketData(resp)
  \/ SocketEnd
  \/ SocketError
  \/ SocketClose
  \/ Reconnect
  \/ Close

(***************************************************************************)
(* Socket reads of several lines (src/unnamed/part_000)                    *)
(***************************************************************************)
\* the frames of the reads: a result, an error reply, and a line that is
\* not JSON
ReadFrames ==
  {f \in ResponseFrames :
     \/ f.result = "obj" /\ f.error = "undefined" /\ f.id = "i1"
     \/ f.result = "undefined" /\ f.error = "errObj" /\ f.id = "i2"}
  \cup GarbageFrames

\* what split('\n') makes of a read: whole lines, and the part of a line
\* that the end of the read cut off ("head") or that the read before it
\* cut off ("tail"); empty pieces are skipped and not listed
Pieces ==
  [frame : ReadFrames, part : {"whole"}]
  \cup [frame : {f \in ReadFrames : f.json}, part : {"head", "tail"}]

\* n whole lines
RECURSIVE WholeLines(_)
WholeLines(n) ==
  IF n = 0 THEN {<<>>}
  ELSE {Append(r, [frame |-> f, part |-> "whole"]) :
          r \in WholeLines(n - 1), f \in ReadFrames}

\* the reads the socket can deliver: a read starts with the rest of the line
\* that the read before it cut, if it cut one, goes on with whole lines, and
\* may end with the first part of a line
Reads ==
  LET starts == IF partial = <<>> THEN {<<>>}
                ELSE {<<[frame |-> partial[1], part |-> "tail"]>>}
      ends == {<<>>} \cup {<<[frame |-> f, part |-> "head"]>> :
                             f \in {g \in ReadFrames : g.json}}
  IN {r \in {s \o m \o e : s \in starts,
                             m \in UNION {WholeLines(n) : n \in 0..MaxPieces},
                             e \in ends} :
        Len(r) \in 1..MaxPieces}

\* JSON.parse(data.toString()) of a piece: a part of a line is not valid JSON
Parsed(piece) ==
  IF piece.part = "whole" THEN piece.frame ELSE CHOOSE g \in GarbageFrames : TRUE

\* what _handleResponse reads and writes, with the events emitted so far
Provider ==
  [requests |-> requests, calls |-> calls, block_height |-> block_height,
   emitted |-> <<>>]

\* mutant: a line that does not parse also empties the table of requests
handleResponseIn_parseErrorClears(st, resp) ==
  IF ~resp.json
  THEN [st EXCEPT !.emitted = Append(@, [name |-> "request-error", arg |-> "parse"]),
                  !.requests = <<>>]
  ELSE IF resp.method # "undefined"
  THEN [st EXCEPT
          !.emitted = @ \o <<[name |-> resp.method, arg |-> resp.params],
                             [name |-> Forwarded(resp.method), arg |-> resp.params]>>,
          !.block_height = (IF resp.method = "blockchain.headers.subscribe"
                            THEN resp.params ELSE @),
          !.requests = Delete(@, resp.id)]
  ELSE IF Truthy(resp.error)
  THEN [st EXCEPT
          !.requests = Delete(@, resp.id),
          !.calls = (IF resp.id \in DOMAIN st.requests
                     THEN LET c == st.requests[resp.id].caller
                          IN [@ EXCEPT ![c] =
                                RpcError(@, resp.error, st.requests[resp.id].method)]
                     ELSE @)]
  ELSE IF resp.id \notin DOMAIN st.requests
  THEN [st EXCEPT !.emitted = Append(@, [name |-> "request-error", arg |-> "no handler"])]
  ELSE [st EXCEPT
          !.calls = (LET c == st.requests[resp.id].caller
                     IN [@ EXCEPT ![c] =
                           Resolved(@, IF resp.result = "null" THEN "null"
                                       ELSE Or(resp.result, resp.error))]),
          !.requests = Delete(@, resp.id)]

\* Electrum._handleResponse as a function of that state
handleResponseIn(st, resp) ==
  IF ~resp.json
  THEN [st EXCEPT !.emitted = Append(@, [name |-> "request-error", arg |-> "parse"])]
  ELSE IF resp.method # "undefined"
  THEN [st EXCEPT
          !.emitted = @ \o <<[name |-> resp.method, arg |-> resp.params],
                             [name |-> Forwarded(resp.method), arg |-> resp.params]>>,
          !.block_height = (IF resp.method = "blockchain.headers.subscribe"
                            THEN resp.params ELSE @),
          !.requests = Delete(@, resp.id)]
  ELSE IF Truthy(resp.error)
  THEN [st EXCEPT
          !.requests = Delete(@, resp.id),
          !.calls = (IF resp.id \in DOMAIN st.requests
                     THEN LET c == st.requests[resp.id].caller
                          IN [@ EXCEPT ![c] =
                                RpcError(@, resp.error, st.requests[resp.id].method)]
                     ELSE @)]
  ELSE IF resp.id \notin DOMAIN st.requests
  THEN [st EXCEPT !.emitted = Append(@, [name |-> "request-error", arg |-> "no handler"])]
  ELSE [st EXCEPT
          !.calls = (LET c == st.requests[resp.id].caller
                     IN [@ EXCEPT ![c] =
                           Resolved(@, IF resp.result = "null" THEN "null"
                                       ELSE Or(resp.result, resp.error))]),
          !.requests = Delete(@, resp.id)]

\* response.forEach: the pieces are handled one after the other, each as a
\* line of its own
RECURSIVE forEachPiece(_, _)
forEachPiece(st, read) ==
  IF read = <<>> THEN st
  ELSE forEachPiece(handleResponseIn(st, Parsed(Head(read))), Tail(read))

\* the socket's 'data' handler, for a read of any number of pieces
SocketRead(read) ==
  /\ client.sock = "open"
  /\ ~client.endFired
  /\ LET out == forEachPiece(Provider, read)
     IN /\ requests' = out.requests
        /\ calls' = out.calls
        /\ block_height' = out.block_height
        /\ emitted' = out.emitted
  /\ lastRead' = read
  /\ partial' = (IF read[Len(read)].part = "head"
                 THEN <<read[Len(read)].frame>> ELSE <<>>)
  /\ UNCHANGED <<status, statusEvent, client, wire, closing, notRead>>

InitRead ==
  /\ lastRead = <<>>
  /\ partial = <<>>

\* one caller makes the requests that the reads answer
NextRead ==
  \/ Connect
  \/ Connected
  \/ \E method \in Methods : MakeRequest("c1", method)
  \/ \E read \in Reads : SocketRead(read)

(***************************************************************************)
(* Transaction builder (src/src/transaction.js) and the parts of the sync  *)
(* manager it calls: utxoForAmount, unlockUtxo, addSentTx                  *)
(***************************************************************************)
DUST_LIMIT == 546

\* the limit the constructor falls back on
DefaultMaxFeeLimit == 100000

\* `a || b` on numbers: a unless a is 0 (or absent, which 0 stands for)
OrNum(a, b) == IF a # 0 THEN a ELSE b

\* the options of a send() call; hasFee = FALSE is a call without a fee
SendOpts ==
  {o \in [amount : SendAmounts, hasFee : BOOLEAN, fee : FeeRates] : o.hasFee \/ o.fee = 0}

\* the config of a Transaction; max_fee_limit = 0 stands for a config without one
Configs == [max_fee_limit : ConfigLimits]

NoUtxoSet == [ok |-> FALSE, utxo |-> {}, total |-> 0]

\* no entry of _txData
NoTx == [fee |-> 0, vSize |-> 0, utxo |-> {}, vout |-> <<>>, change |-> 0, pass |-> "none"]

\* a send() call that has not started, on a Transaction built from config
NewSend(config) ==
  [pc |-> "idle", config |-> config, opts |-> [amount |-> 0, hasFee |-> FALSE, fee |-> 0],
   changeAddr |-> FALSE, utxoSet |-> NoUtxoSet, cur |-> NoUtxoSet, weight |-> 1,
   error |-> "none", unlockUtxo |-> "none", selected |-> {}, addSentTx |-> FALSE,
   hex |-> NoTx, broadcast |-> "none", rerequests |-> 0]

\* the unlocked UTXOs, in the order the sync manager keeps them
Candidates(locked) ==
  SelectSeq([i \in 1..Len(utxos) |-> i], LAMBDA i : i \notin locked)

RECURSIVE Accumulate(_, _, _, _)
\* take candidates in order until their values add up to target
Accumulate(cands, target, picked, total) ==
  IF total >= target /\ picked # {} THEN [ok |-> TRUE, utxo |-> picked, total |-> total]
  ELSE IF cands = <<>> THEN NoUtxoSet
  ELSE Accumulate(Tail(cands), target, picked \cup {Head(cands)}, total + utxos[Head(cands)])

\* syncManager.utxoForAmount(target), with `locked` the UTXOs locked before the
\* call: the set it selects and locks, or ok = FALSE when it throws
utxoForAmount(locked, target) == Accumulate(Candidates(locked), target, {}, 0)

\* syncManager.unlockUtxo(success): the UTXOs that remain available
unlockUtxo(locked, success) ==
  IF success
  THEN LET keep == Candidates(locked) IN [j \in 1..Len(keep) |-> utxos[keep[j]]]
  ELSE utxos

\* tx.virtualSize() of a transaction with nIn P2WPKH inputs and nOut outputs
vSize(nIn, nOut) == 11 + 68 * nIn + 31 * nOut

\* the test of line 144
InvalidFee(opts, limit) ==
  ~opts.hasFee \/ opts.fee = 0 \/ opts.fee <= 0 \/ opts.fee > limit

\* the test of line 91, were it to ask for more UTXOs on a negative change only
NeedsMoreUtxo_negative(change) == change < 0

\* the test of line 91
NeedsMoreUtxo(change) == change < DUST_LIMIT

\* the outputs added at lines 100-110
Vout(sendAmount, change) ==
  IF change # 0 THEN <<sendAmount, change>> ELSE <<sendAmount>>

getLastAttempt(data) == data[Len(data)]

\* new Transaction(config)
Transaction(config) ==
  /\ sendCall.pc \in {"done", "failed"}
  /\ Cardinality(broadcasted) < MaxSent
  /\ max_fee_limit' = OrNum(DefaultMaxFeeLimit, config.max_fee_limit)
  /\ txData' = <<>>
  /\ sendCall' = NewSend(config)
  /\ UNCHANGED <<utxos, lockedUtxos, broadcasted>>
  /\ UNCHANGED notTx

\* the sync manager finds an unspent output of the wallet
AddUtxo(value) ==
  /\ sendCall.pc = "idle"
  /\ Len(utxos) < MaxUtxos
  /\ utxos' = Append(utxos, value)
  /\ UNCHANGED <<lockedUtxos, broadcasted, max_fee_limit, txData, sendCall>>
  /\ UNCHANGED notTx

\* send(opts) up to the first _generateRawTx call: the fee check, the change
\* address and the first coin selection of _createTransaction
CreateTransaction(opts) ==
  /\ sendCall.pc = "idle"
  /\ IF InvalidFee(opts, max_fee_limit)
     THEN /\ sendCall' = [sendCall EXCEPT !.pc = "failed", !.opts = opts,
                                          !.error = "Invalid fee"]
          /\ UNCHANGED lockedUtxos
     ELSE LET utxoSet == utxoForAmount(lockedUtxos, opts.amount)
          IN  IF utxoSet.ok
              THEN /\ lockedUtxos' = lockedUtxos \cup utxoSet.utxo
                   /\ sendCall' = [sendCall EXCEPT !.pc = "probe", !.opts = opts,
                                     !.changeAddr = TRUE, !.utxoSet = utxoSet,
                                     !.cur = utxoSet, !.selected = utxoSet.utxo]
              ELSE /\ sendCall' = [sendCall EXCEPT !.pc = "failed", !.opts = opts,
                                     !.changeAddr = TRUE, !.error = "Insufficient"]
                   /\ UNCHANGED lockedUtxos
  /\ UNCHANGED <<utxos, broadcasted, max_fee_limit, txData>>
  /\ UNCHANGED notTx

\* one _generateRawTx call of the probe or of the finalize pass, and what
\* _createTransaction does when it returns or throws
GenerateRawTx ==
  /\ sendCall.pc \in {"probe", "final"}
  /\ LET sendAmount == sendCall.opts.amount
         fee        == sendCall.opts.fee
         total      == sendCall.cur.total
         totalFee   == fee * sendCall.weight
         change     == total - sendAmount - totalFee
         thrown     == IF sendCall.pc = "probe" THEN "Failed to simulate tx"
                       ELSE "failed to send transaction"
     IN  IF sendAmount <= DUST_LIMIT
         THEN /\ sendCall' = [sendCall EXCEPT !.pc = "failed", !.error = thrown]
              /\ UNCHANGED <<lockedUtxos, txData, broadcasted>>
         ELSE IF NeedsMoreUtxo(change)
         THEN LET newUtxoSet == utxoForAmount({}, total + fee)
              IN  /\ lockedUtxos' = newUtxoSet.utxo
                  /\ sendCall' =
                       IF newUtxoSet.ok
                       THEN [sendCall EXCEPT !.cur = newUtxoSet,
                               !.selected = @ \cup newUtxoSet.utxo,
                               !.rerequests = @ + 1]
                       ELSE [sendCall EXCEPT !.pc = "failed", !.error = thrown]
                  /\ UNCHANGED <<txData, broadcasted>>
         ELSE LET vout   == Vout(sendAmount, change)
                  sentTx == [fee |-> totalFee, vSize |-> vSize(Cardinality(sendCall.cur.utxo), Len(vout)),
                             utxo |-> sendCall.cur.utxo, vout |-> vout,
                             change |-> change, pass |-> sendCall.pc]
              IN  /\ txData' = Append(txData, sentTx)
                  /\ IF sendCall.pc = "probe"
                     THEN /\ sendCall' = [sendCall EXCEPT !.pc = "final",
                                            !.cur = sendCall.utxoSet,
                                            !.rerequests = 0,
                                            !.weight = getLastAttempt(txData').vSize]
                          /\ UNCHANGED broadcasted
                     ELSE /\ broadcasted' = broadcasted \cup {getLastAttempt(txData')}
                          /\ sendCall' = [sendCall EXCEPT !.pc = "broadcast",
                                            !.addSentTx = TRUE,
                                            !.hex = getLastAttempt(txData'),
                                            !.broadcast = "sent"]
                  /\ UNCHANGED lockedUtxos
  /\ UNCHANGED <<utxos, max_fee_limit>>
  /\ UNCHANGED notTx

\* the provider resolves the broadcast with a transaction id
BroadcastResolves ==
  /\ sendCall.pc = "broadcast"
  /\ utxos' = unlockUtxo(lockedUtxos, TRUE)
  /\ lockedUtxos' = {}
  /\ sendCall' = [sendCall EXCEPT !.pc = "done", !.unlockUtxo = "true",
                                  !.broadcast = "ok"]
  /\ UNCHANGED <<broadcasted, max_fee_limit, txData>>
  /\ UNCHANGED notTx

\* the provider resolves the broadcast with a value that has a message
BroadcastMessage ==
  /\ sendCall.pc = "broadcast"
  /\ utxos' = unlockUtxo(lockedUtxos, FALSE)
  /\ lockedUtxos' = {}
  /\ sendCall' = [sendCall EXCEPT !.pc = "failed", !.unlockUtxo = "false",
                                  !.error = "Broadcast failed",
                                  !.broadcast = "message"]
  /\ UNCHANGED <<broadcasted, max_fee_limit, txData>>
  /\ UNCHANGED notTx

\* the provider rejects the broadcast
BroadcastRejects ==
  /\ sendCall.pc = "broadcast"
  /\ sendCall' = [sendCall EXCEPT !.pc = "failed", !.error = "failed to broadcast tx",
                                  !.broadcast = "rejected"]
  /\ UNCHANGED <<utxos, lockedUtxos, broadcasted, max_fee_limit, txData>>
  /\ UNCHANGED notTx

InitTx ==
  /\ utxos = <<>>
  /\ lockedUtxos = {}
  /\ broadcasted = {}
  /\ max_fee_limit = OrNum(DefaultMaxFeeLimit, 0)
  /\ txData = <<>>
  /\ sendCall = NewSend([max_fee_limit |-> 0])

NextTx ==
  \/ \E config \in Configs : Transaction(config)
  \/ \E value \in UtxoValues : AddUtxo(value)
  \/ \E opts \in SendOpts : CreateTransaction(opts)
  \/ GenerateRawTx
  \/ BroadcastResolves
  \/ BroadcastMessage
  \/ BroadcastRejects

(***************************************************************************)
(* WalletPayBitcoin (src/unnamed/part_001): handing out addresses, and     *)
(* syncTransactions, pauseSync and destroy, with the parts of HdWallet and *)
(* of the sync manager they call                                           *)
(***************************************************************************)
\* a path m/P'/C'/A'/change/index, as far as the wallet looks at it
Path(change, index) == [change |-> change, index |-> index]

\* HdWallet.getLastExtPath() and getLastIntPath()
getLastExtPath == lastPath.ext

getLastIntPath == lastPath.in

\* HdWallet.bumpIndex(path): the path with index + 1
bumpIndex(path) == [path EXCEPT !.index = @ + 1]

\* HdWallet.updateLastPath(path): the last path of the chain the path is on
updateLastPath(last, path) ==
  IF path.change = 0 THEN [last EXCEPT !.ext = path] ELSE [last EXCEPT !.in = path]

\* an address call that has not been made
NoAddrCall == [pc |-> "idle", addr |-> Path(0, 0)]

\* getNewAddress up to its await, were it not to store the bumped path
GetNewAddress_noUpdate(caller) ==
  /\ addrCalls[caller].pc # "watching"
  /\ getLastExtPath.index < MaxIndex
  /\ LET path == getLastExtPath
     IN  /\ UNCHANGED lastPath
         /\ addrCalls' = [addrCalls EXCEPT ![caller] = [pc |-> "watching", addr |-> path]]
         /\ handedOut' = [handedOut EXCEPT !.ext = Append(@, path.index)]
  /\ UNCHANGED syncVars
  /\ UNCHANGED notWallet

\* getNewAddress up to its await: the address of the last external path is
\* taken, the bumped path is stored, and the call waits for watchAddress
GetNewAddress(caller) ==
  /\ addrCalls[caller].pc # "watching"
  /\ getLastExtPath.index < MaxIndex
  /\ LET path == getLastExtPath
     IN  /\ lastPath' = updateLastPath(lastPath, bumpIndex(path))
         /\ addrCalls' = [addrCalls EXCEPT ![caller] = [pc |-> "watching", addr |-> path]]
         /\ handedOut' = [handedOut EXCEPT !.ext = Append(@, path.index)]
  /\ UNCHANGED syncVars
  /\ UNCHANGED notWallet

\* _getInternalAddress up to its await
GetInternalAddress(caller) ==
  /\ addrCalls[caller].pc # "watching"
  /\ getLastIntPath.index < MaxIndex
  /\ LET path == getLastIntPath
     IN  /\ lastPath' = updateLastPath(lastPath, bumpIndex(path))
         /\ addrCalls' = [addrCalls EXCEPT ![caller] = [pc |-> "watching", addr |-> path]]
         /\ handedOut' = [handedOut EXCEPT !.in = Append(@, path.index)]
  /\ UNCHANGED syncVars
  /\ UNCHANGED notWallet

\* watchAddress resolves and the call returns addr
WatchAddressDone(caller) ==
  /\ addrCalls[caller].pc = "watching"
  /\ addrCalls' = [addrCalls EXCEPT ![caller].pc = "returned"]
  /\ UNCHANGED <<lastPath, handedOut>>
  /\ UNCHANGED syncVars
  /\ UNCHANGED notWallet

\* the stores and connections destroy() closes, in its order
Closables == <<"provider", "state.store", "syncManager", "hdWallet">>

\* syncManager.isStopped(), stopSync() and resumeSync(): the stop flag
isStopped == halt

\* a syncAccount(chain) call starts: the sync manager is syncing
SyncAccountStart(chain) ==
  /\ isSyncing' = TRUE
  /\ syncCall' = [pc |-> chain, scanned |-> 0,
                  syncEnds |-> IF chain = "external" THEN 0 ELSE syncCall.syncEnds,
                  internal |-> chain = "internal"]

\* this.emit('sync-end'): the listener pauseSync registered with once() runs
EmitSyncEnd ==
  destroyCall' =
    [destroyCall EXCEPT !.pc = IF @ = "pauseSync" THEN "close" ELSE @,
                        !.syncEnded = @ \/ destroyCall.pc # "none"]

\* syncTransactions(opts) up to its first await
SyncTransactions(reset) ==
  /\ syncCall.pc = "idle"
  /\ IF reset
     THEN /\ syncCall' = [pc |-> "reset", scanned |-> 0, syncEnds |-> 0,
                          internal |-> FALSE]
          /\ UNCHANGED isSyncing
     ELSE SyncAccountStart("external")
  /\ UNCHANGED <<halt, destroyCall, closed>>
  /\ UNCHANGED addrVars
  /\ UNCHANGED notWallet

\* syncManager.reset() resolves and syncTransactions calls syncAccount('external')
ResetDone ==
  /\ syncCall.pc = "reset"
  /\ SyncAccountStart("external")
  /\ UNCHANGED <<halt, destroyCall, closed>>
  /\ UNCHANGED addrVars
  /\ UNCHANGED notWallet

\* syncAccount scans one more address; it checks the stop flag first
ScanAddress ==
  /\ syncCall.pc \in {"external", "internal"}
  /\ ~isStopped
  /\ syncCall.scanned < MaxScan
  /\ syncCall' = [syncCall EXCEPT !.scanned = @ + 1]
  /\ UNCHANGED <<isSyncing, halt, destroyCall, closed>>
  /\ UNCHANGED addrVars
  /\ UNCHANGED notWallet

\* syncAccount returns, at the end of its scan or because the stop flag is set
SyncAccountEnd ==
  /\ syncCall.pc \in {"external", "internal"}
  /\ isSyncing' = FALSE
  /\ syncCall' = [syncCall EXCEPT !.pc = IF @ = "external" THEN "externalDone"
                                         ELSE "internalDone"]
  /\ UNCHANGED <<halt, destroyCall, closed>>
  /\ UNCHANGED addrVars
  /\ UNCHANGED notWallet

\* mutant: the internal scan is started whatever the stop flag
AfterExternal_ignoresStop ==
  /\ syncCall.pc = "externalDone"
  /\ SyncAccountStart("internal")
  /\ UNCHANGED <<halt, destroyCall>>
  /\ UNCHANGED closed
  /\ UNCHANGED addrVars
  /\ UNCHANGED notWallet

\* syncTransactions after syncAccount('external'): lines 185-190
AfterExternal ==
  /\ syncCall.pc = "externalDone"
  /\ IF isStopped
     THEN /\ halt' = FALSE
          /\ EmitSyncEnd
          /\ syncCall' = [syncCall EXCEPT !.pc = "idle", !.scanned = 0,
                                          !.syncEnds = @ + 1]
          /\ UNCHANGED isSyncing
     ELSE /\ SyncAccountStart("internal")
          /\ UNCHANGED <<halt, destroyCall>>
  /\ UNCHANGED closed
  /\ UNCHANGED addrVars
  /\ UNCHANGED notWallet

\* syncTransactions after syncAccount('internal'): lines 191-192
AfterInternal ==
  /\ syncCall.pc = "internalDone"
  /\ halt' = FALSE
  /\ EmitSyncEnd
  /\ syncCall' = [syncCall EXCEPT !.pc = "idle", !.scanned = 0, !.syncEnds = @ + 1]
  /\ UNCHANGED <<isSyncing, closed>>
  /\ UNCHANGED addrVars
  /\ UNCHANGED notWallet

\* destroy() up to the await of pauseSync(): pauseSync resolves at once when
\* the sync manager is not syncing, else it waits for 'sync-end' and calls
\* stopSync()
Destroy ==
  /\ destroyCall.pc = "none"
  /\ IF ~isSyncing
     THEN /\ destroyCall' = [pc |-> "close", syncRunning |-> syncCall.pc # "idle",
                             syncEnded |-> FALSE]
          /\ UNCHANGED halt
     ELSE /\ destroyCall' = [pc |-> "pauseSync", syncRunning |-> syncCall.pc # "idle",
                             syncEnded |-> FALSE]
          /\ halt' = TRUE
  /\ UNCHANGED <<isSyncing, syncCall, closed>>
  /\ UNCHANGED addrVars
  /\ UNCHANGED notWallet

\* destroy() closes the next of the provider, the state store, the sync
\* manager and the HD wallet store
DestroyClose ==
  /\ destroyCall.pc = "close"
  /\ closed' = Append(closed, Closables[Len(closed) + 1])
  /\ destroyCall' = [destroyCall EXCEPT !.pc = IF Len(closed') = Len(Closables)
                                                THEN "done" ELSE "close"]
  /\ UNCHANGED <<isSyncing, halt, syncCall>>
  /\ UNCHANGED addrVars
  /\ UNCHANGED notWallet

InitWallet ==
  /\ lastPath = [ext |-> Path(0, 0), in |-> Path(1, 0)]
  /\ addrCalls = [c \in AddrCallers |-> NoAddrCall]
  /\ handedOut = [ext |-> <<>>, in |-> <<>>]
  /\ isSyncing = FALSE
  /\ halt = FALSE
  /\ syncCall = [pc |-> "idle", scanned |-> 0, syncEnds |-> 0, internal |-> FALSE]
  /\ destroyCall = [pc |-> "none", syncRunning |-> FALSE, syncEnded |-> FALSE]
  /\ closed = <<>>

NextWallet ==
  \/ \E caller \in AddrCallers : GetNewAddress(caller)
  \/ \E caller \in AddrCallers : GetInternalAddress(caller)
  \/ \E caller \in AddrCallers : WatchAddressDone(caller)
  \/ \E reset \in BOOLEAN : SyncTransactions(reset)
  \/ ResetDone
  \/ ScanAddress
  \/ SyncAccountEnd
  \/ AfterExternal
  \/ AfterInternal
  \/ Destroy
  \/ DestroyClose

\* the synchronisation and destroy() alone
NextSync ==
  \/ \E reset \in BOOLEAN : SyncTransactions(reset)
  \/ ResetDone
  \/ ScanAddress
  \/ SyncAccountEnd
  \/ AfterExternal
  \/ AfterInternal
  \/ Destroy
  \/ DestroyClose

(***************************************************************************)
(* Electrum._txGet and its RequestCache (src/unnamed/part_000)             *)
(***************************************************************************)
\* the store of the RequestCache has no entry under the key
NoEntry == [present |-> FALSE, height |-> 0]

\* a _txGet call that has not been made
NoTxGet ==
  [pc |-> "idle", txid |-> "t1", cache |-> TRUE, cacheValue |-> NoEntry,
   sent |-> FALSE, height |-> 0]

\* _procTxHeight(tx): the height given to a transaction with that many
\* confirmations; 0 confirmations stands for a reply without the field too
procTxHeight(confirmations) ==
  IF confirmations = 0 THEN 0 ELSE block_height - (confirmations - 1)

\* RequestCache.get(key): data[0] of the stored pair, or null
CacheGet(key) == cacheStore[key]

\* the 'new-block' callback of _subscribe: the provider's block height
NewBlockHeight(height) ==
  /\ block_height' = height
  /\ UNCHANGED <<status, statusEvent, client, requests, calls, wire, emitted, closing>>
  /\ UNCHANGED <<cacheStore, cache_index, txGetCalls>>
  /\ UNCHANGED notElectrum

\* _txGet(txid, opts) up to its first await: the request when opts.cache is
\* false, else the read of the cache
TxGet(caller, txid, cache) ==
  /\ txGetCalls[caller].pc \in {"idle", "returned", "failed"}
  /\ Len(cache_index) + Cardinality({c \in TxGetCallers :
         txGetCalls[c].pc \in {"cache.get", "getTransaction", "cache.set"}}) < MaxCacheIndex
  /\ txGetCalls' = [txGetCalls EXCEPT ![caller] =
       [NoTxGet EXCEPT !.pc = IF cache THEN "cache.get" ELSE "getTransaction",
                       !.txid = txid, !.cache = cache, !.sent = ~cache]]
  /\ UNCHANGED <<cacheStore, cache_index>>
  /\ UNCHANGED notTxGet

\* cache.get resolves, were _txGet to return whatever value is cached
TxGetCached_anyHeight(caller) ==
  /\ txGetCalls[caller].pc = "cache.get"
  /\ LET cacheValue == CacheGet(txGetCalls[caller].txid)
     IN  txGetCalls' = [txGetCalls EXCEPT ![caller] =
           IF cacheValue.present
           THEN [@ EXCEPT !.pc = "returned", !.cacheValue = cacheValue,
                          !.height = cacheValue.height]
           ELSE [@ EXCEPT !.pc = "getTransaction", !.cacheValue = cacheValue,
                          !.sent = TRUE]]
  /\ UNCHANGED <<cacheStore, cache_index>>
  /\ UNCHANGED notTxGet

\* cache.get resolves: the cached value is returned when there is one and its
\* height is not 0, else the request is made
TxGetCached(caller) ==
  /\ txGetCalls[caller].pc = "cache.get"
  /\ LET cacheValue == CacheGet(txGetCalls[caller].txid)
     IN  txGetCalls' = [txGetCalls EXCEPT ![caller] =
           IF cacheValue.present /\ cacheValue.height # 0
           THEN [@ EXCEPT !.pc = "returned", !.cacheValue = cacheValue,
                          !.height = cacheValue.height]
           ELSE [@ EXCEPT !.pc = "getTransaction", !.cacheValue = cacheValue,
                          !.sent = TRUE]]
  /\ UNCHANGED <<cacheStore, cache_index>>
  /\ UNCHANGED notTxGet

\* _getTransaction resolves with a transaction of that many confirmations;
\* _procTxHeight gives it its height and cache.set is called
TxGetReply(caller, confirmations) ==
  /\ txGetCalls[caller].pc = "getTransaction"
  /\ txGetCalls' = [txGetCalls EXCEPT ![caller].pc = "cache.set",
                                      ![caller].height = procTxHeight(confirmations)]
  /\ UNCHANGED <<cacheStore, cache_index>>
  /\ UNCHANGED notTxGet

\* _getTransaction rejects and so does _txGet
TxGetRejects(caller) ==
  /\ txGetCalls[caller].pc = "getTransaction"
  /\ txGetCalls' = [txGetCalls EXCEPT ![caller].pc = "failed"]
  /\ UNCHANGED <<cacheStore, cache_index>>
  /\ UNCHANGED notTxGet

\* cache.set(txid, data) resolves and _txGet returns data
TxGetCacheSet(caller) ==
  /\ txGetCalls[caller].pc = "cache.set"
  /\ cache_index' = Append(cache_index, txGetCalls[caller].txid)
  /\ cacheStore' = [cacheStore EXCEPT ![txGetCalls[caller].txid] =
                      [present |-> TRUE, height |-> txGetCalls[caller].height]]
  /\ txGetCalls' = [txGetCalls EXCEPT ![caller].pc = "returned"]
  /\ UNCHANGED notTxGet

InitTxGet ==
  /\ cacheStore = [t \in Txids |-> NoEntry]
  /\ cache_index = <<>>
  /\ txGetCalls = [c \in TxGetCallers |-> NoTxGet]

NextTxGet ==
  \/ \E height \in PushHeights : NewBlockHeight(height)
  \/ \E caller \in TxGetCallers, txid \in Txids, cache \in BOOLEAN : TxGet(caller, txid, cache)
  \/ \E caller \in TxGetCallers : TxGetCached(caller)
  \/ \E caller \in TxGetCallers, confirmations \in Confirmations :
       TxGetReply(caller, confirmations)
  \/ \E caller \in TxGetCallers : TxGetRejects(caller)
  \/ \E caller \in TxGetCallers : TxGetCacheSet(caller)

(***************************************************************************)
(* RequestCache (src/unnamed/part_000)                                     *)
(***************************************************************************)
\* the defaults of the constructor
DefaultCacheTimeout == 300000

DefaultMaxCacheSize == 10000

\* the configs a RequestCache is built from; 0 stands for an absent field
CacheConfigs ==
  [cache_timeout : CacheTimeouts, max_cache_size : CacheSizes,
   cache_interval : CacheIntervals]

\* nothing stored under a key
NoData == [present |-> FALSE, expiry |-> 0, setAt |-> 0, given |-> 0]

\* no get call has been made
NoGet == [key |-> "none", hit |-> FALSE, at |-> 0, expiry |-> 0, given |-> 0]

\* new RequestCache(config): no _max_session_size and no _cache_interval is
\* assigned; _startCacheTimer has no caller, so no sweep is ever scheduled
NewRequestCache(config) ==
  [config |-> config,
   _cache_expiry |-> OrNum(config.cache_timeout, DefaultCacheTimeout),
   _max_cache_size |-> OrNum(config.max_cache_size, DefaultMaxCacheSize),
   _cache_size |-> 0,
   has_max_session_size |-> FALSE,
   _max_session_size |-> 0]

\* the test of line 78: this._cache_size >= this._max_session_size, which is
\* false when _max_session_size is undefined
AtCapacity(rc, index) ==
  rc.has_max_session_size /\ rc._cache_size >= rc._max_session_size

\* data[1] of lines 81-85: value.expiry, or Date.now() + _cache_expiry
expiryOf(rc, given) == OrNum(given, now + rc._cache_expiry)

\* new RequestCache(config) on an empty store
RequestCache(config) ==
  /\ requestCache' = NewRequestCache(config)
  /\ rcStore' = [k \in Txids |-> NoData]
  /\ rcIndex' = <<>>
  /\ lastGet' = NoGet
  /\ UNCHANGED now
  /\ UNCHANGED notCache

\* RequestCache.set(key, value), value.expiry being `given` (0: none)
CacheSet(key, given) ==
  /\ Len(rcIndex) < MaxCacheIndex
  /\ LET evict == AtCapacity(requestCache, rcIndex) /\ rcIndex # <<>>
         \* _removeOldest: index.shift() and the delete of that key
         index == IF evict THEN Tail(rcIndex) ELSE rcIndex
         store == IF evict THEN [rcStore EXCEPT ![Head(rcIndex)] = NoData]
                  ELSE rcStore
     IN /\ rcIndex' = Append(index, key)
        /\ rcStore' = [store EXCEPT ![key] =
                         [present |-> TRUE, expiry |-> expiryOf(requestCache, given),
                          setAt |-> now, given |-> given]]
  \* this.size = index.length: the setter of size does nothing
  /\ UNCHANGED <<requestCache, now, lastGet>>
  /\ UNCHANGED notCache

\* RequestCache.get(key): data[0] when something is stored, whatever its expiry
CacheGetKey(key) ==
  /\ lastGet' = [key |-> key, hit |-> rcStore[key].present, at |-> now,
                 expiry |-> rcStore[key].expiry, given |-> rcStore[key].given]
  /\ UNCHANGED <<requestCache, rcStore, rcIndex, now>>
  /\ UNCHANGED notCache

\* time passes
Tick ==
  /\ now < MaxNow
  /\ now' = now + 1
  /\ UNCHANGED <<requestCache, rcStore, rcIndex, lastGet>>
  /\ UNCHANGED notCache

InitCache ==
  /\ requestCache = NewRequestCache([cache_timeout |-> 0, max_cache_size |-> 0,
                                     cache_interval |-> 0])
  /\ rcStore = [k \in Txids |-> NoData]
  /\ rcIndex = <<>>
  /\ now = 0
  /\ lastGet = NoGet

NextCache ==
  \/ \E config \in CacheConfigs : RequestCache(config)
  \/ \E key \in Txids, given \in Expiries : CacheSet(key, given)
  \/ \E key \in Txids : CacheGetKey(key)
  \/ Tick

(***************************************************************************)
(* The transaction history of the AddressManager                           *)
(* (src/src/address-manager.js)                                            *)
(***************************************************************************)
\* the keys `i:${height}:${txid}` and `tx:${txid}` of the history store
IndexKey(height, txid) == <<"i", height, txid>>

ReverseKey(txid) == <<"tx", txid>>

\* the transactions handed to storeTx
TxHeights == 0..MaxTxHeight \cup RolloverHeights

HistoryTxs == [txid : Txids, height : TxHeights]

\* no storeTx call yet
NoStoreTx == [op |-> "none"]

\* getHeight(txid): what the store holds under tx:<txid>, -1 for nothing
getHeight(txid) ==
  IF ReverseKey(txid) \in DOMAIN history THEN history[ReverseKey(txid)] ELSE 0 - 1

\* storeTx(tx), were it not to delete the mempool key i:0:<txid>
storeTx_keepMempoolKey(store, tx) ==
  LET d2 == Delete(store, IndexKey(tx.height - 1, tx.txid))
      p1 == Set(d2, IndexKey(tx.height, tx.txid), tx)
  IN  Set(p1, ReverseKey(tx.txid), tx.height)

\* storeTx(tx): the store after its two deletes and two puts
storeTx(store, tx) ==
  LET d1 == Delete(store, IndexKey(0, tx.txid))
      d2 == Delete(d1, IndexKey(tx.height - 1, tx.txid))
      p1 == Set(d2, IndexKey(tx.height, tx.txid), tx)
  IN  Set(p1, ReverseKey(tx.txid), tx.height)

\* a storeTx(tx) call
StoreTx(tx) ==
  /\ history' = storeTx(history, tx)
  /\ lastStoreTx' = [op |-> "storeTx", tx |-> tx,
                     hadMempoolKey |-> IndexKey(0, tx.txid) \in DOMAIN history]
  /\ UNCHANGED lastGetTxHeight
  /\ UNCHANGED notHistory

\* the decimal digits of n >= 0, as character codes
RECURSIVE Dec(_)
Dec(n) == IF n < 10 THEN <<48 + n>> ELSE Append(Dec(n \div 10), 48 + (n % 10))

\* the characters of a transaction id
TxidChars(txid) == IF txid = "t1" THEN <<116, 49>> ELSE <<116, 50>>

\* the key as the string the store holds: i:<height>:<txid> or tx:<txid>
KeyString(key) ==
  IF key[1] = "i" THEN <<105, 58>> \o Dec(key[2]) \o <<58>> \o TxidChars(key[3])
  ELSE <<116, 120, 58>> \o TxidChars(key[2])

\* a < b in the lexicographic order of the store's keys
RECURSIVE LexLess(_, _)
LexLess(a, b) ==
  IF b = <<>> THEN FALSE
  ELSE IF a = <<>> THEN TRUE
  ELSE IF Head(a) # Head(b) THEN Head(a) < Head(b)
  ELSE LexLess(Tail(a), Tail(b))

\* store.entries(fn, { gt, lt }): the keys the range scan visits
entries(store, gt, lt) ==
  {k \in DOMAIN store : LexLess(gt, KeyString(k)) /\ LexLess(KeyString(k), lt)}

\* getTxHeight(height): the values of the visited keys that start with i: and
\* whose height field is height (as a set; their order is that of the keys)
getTxHeight(store, height) ==
  LET prf == <<105, 58>>
      visited == entries(store, prf \o Dec(height), prf \o Dec(height + 1))
  IN {store[k] : k \in {v \in visited : v[1] = "i" /\ v[2] = height}}

\* a getTxHeight(height) call
GetTxHeight(height) ==
  /\ lastGetTxHeight' = [op |-> "getTxHeight", height |-> height,
                         results |-> getTxHeight(history, height)]
  /\ UNCHANGED <<history, lastStoreTx>>
  /\ UNCHANGED notHistory

InitHistory ==
  /\ history = <<>>
  /\ lastStoreTx = NoStoreTx
  /\ lastGetTxHeight = [op |-> "none", height |-> 0, results |-> {}]

NextHistory ==
  \/ \E tx \in HistoryTxs : StoreTx(tx)
  \/ \E height \in TxHeights : GetTxHeight(height)

Init ==
  /\ InitLedger /\ InitBlock /\ InitElectrum /\ InitTx /\ InitWallet /\ InitTxGet
  /\ InitHistory /\ InitRead /\ InitCache

Next ==
  \/ NextLedger \/ NextBlock \/ NextElectrum \/ NextTx \/ NextWallet \/ NextTxGet
  \/ NextHistory \/ NextRead \/ NextCache

Spec == Init /\ [][Next]_vars

SpecLedger == Init /\ [][NextLedger]_vars

SpecBlock == Init /\ [][NextBlock]_vars

SpecElectrum == Init /\ [][NextElectrum]_vars

SpecTx == Init /\ [][NextTx]_vars

SpecWallet == Init /\ [][NextWallet]_vars

SpecTxGet == Init /\ [][NextTxGet]_vars

SpecHistory == Init /\ [][NextHistory]_vars

SpecRead == Init /\ [][NextRead]_vars

SpecCache == Init /\ [][NextCache]_vars

\* a promise that was awaited is resumed once it has settled: syncAccount
\* and reset() return, and syncTransactions goes on after each of them
SpecSync ==
  /\ Init /\ [][NextSync]_vars
  /\ WF_vars(ResetDone) /\ WF_vars(SyncAccountEnd)
  /\ WF_vars(AfterExternal) /\ WF_vars(AfterInternal)

(***************************************************************************)
(* Claims about Balance                                                    *)
(***************************************************************************)
RECURSIVE SumAmounts(_)
SumAmounts(list) == IF list = <<>> THEN 0 ELSE list[1][2] + SumAmounts(Tail(list))

\* the records of txid in a bucket's list
RecordsOf(self, s, txid) == {i \in 1..Len(self.txid[s]) : self.txid[s][i][1] = txid}

\* C1: each bucket's amount equals the sum of the amounts recorded in its list
C1_BalanceIsSumOfRecords ==
  \A s \in Buckets : bal[s] = SumAmounts(bal.txid[s])

\* C2: re-adding a recorded (txid, amount) to any bucket takes the amount from
\* the bucket it was in, adds it to the target bucket and keeps the total
C2_MovePreservesTotals ==
  lastCall.op = "addTxid" =>
    \A b1 \in Buckets :
      (\E i \in RecordsOf(prevBal, b1, lastCall.txid) :
          prevBal.txid[b1][i][2] = lastCall.amount) =>
        /\ Consolidated(bal) = Consolidated(prevBal)
        /\ \A s \in Buckets :
             bal[s] = prevBal[s]
                      - (IF s = b1 THEN lastCall.amount ELSE 0)
                      + (IF s = lastCall.state THEN lastCall.amount ELSE 0)

C2_Witness ==
  /\ lastCall.op = "addTxid"
  /\ lastCall.state = "confirmed"
  /\ \E i \in RecordsOf(prevBal, "mempool", lastCall.txid) :
        prevBal.txid["mempool"][i][2] = lastCall.amount
  /\ bal.confirmed = prevBal.confirmed + lastCall.amount
  /\ \E t \in Txids : t # lastCall.txid /\ \E s \in Buckets : HasTx(bal, s, t)

\* C3: calling addTxid a second time with the same arguments changes nothing
C3_TwiceIsOnce ==
  lastCall.op = "addTxid" =>
    addTxid(bal, lastCall.state, lastCall.txid, lastCall.amount) = bal

C3_Witness ==
  /\ lastCall.op = "addTxid"
  /\ \E t \in Txids : t # lastCall.txid /\ \E s \in Buckets : HasTx(prevBal, s, t)
  /\ \E s \in Buckets : s # lastCall.state /\ HasTx(prevBal, s, lastCall.txid)

\* C4: after addTxid the txid is recorded once, in the target bucket with the
\* amount of the call, and the records of the other txids are as they were
C4_RecordedOnce ==
  lastCall.op = "addTxid" =>
    /\ \A s \in Buckets :
         Cardinality(RecordsOf(bal, s, lastCall.txid))
           = (IF s = lastCall.state THEN 1 ELSE 0)
    /\ \E i \in 1..Len(bal.txid[lastCall.state]) :
         bal.txid[lastCall.state][i] = <<lastCall.txid, lastCall.amount>>
    /\ \A s \in Buckets :
         FilterTxid(bal.txid[s], lastCall.txid) = FilterTxid(prevBal.txid[s], lastCall.txid)

C4_Witness ==
  /\ lastCall.op = "addTxid"
  /\ \E s \in Buckets : s # lastCall.state /\ HasTx(prevBal, s, lastCall.txid)
  /\ \E t \in Txids : t # lastCall.txid /\ HasTx(bal, lastCall.state, t)

(***************************************************************************)
(* Claims about the block height                                           *)
(***************************************************************************)
\* C5: the tracked latest block height never decreases, in memory
\* (latest_block, BlockCounter.block), as propagated to the sync manager and
\* as persisted
C5_HeightNeverDecreases ==
  [][/\ latest_block' >= latest_block
     /\ currentBlock' >= currentBlock
     /\ block' >= block
     /\ store_latest_block' >= store_latest_block]_vars

(***************************************************************************)
(* Claims about the Electrum transport                                     *)
(***************************************************************************)
\* the callers whose request is registered in the pending-request table
Registered == {requests[i].caller : i \in DOMAIN requests}

\* C7: once the connection is down no request is left in the pending-request
\* table and no caller's promise is left pending
C7_DownRejectsPending ==
  status \in {"DISCONNECTED", "ERROR", "DESTROYED"} =>
    /\ DOMAIN requests = {}
    /\ \A c \in Callers : calls[c].st # "pending"

\* C8: a request made in a status other than CONNECTED is rejected with
\* 'not connected', writes nothing and registers nothing
C8_NotConnectedRejects ==
  [][\A c \in Callers, m \in Methods :
       (status # "CONNECTED" /\ MakeRequest(c, m)) =>
         /\ calls'[c].st = "rejected"
         /\ calls'[c].val = "not connected"
         /\ requests' = requests
         /\ wire' = wire
         /\ \A d \in Callers \ {c} : calls'[d] = calls[d]]_vars

C8_Witness ==
  /\ status \in {"DISCONNECTED", "CONNECTING", "ERROR", "DESTROYED"}
  /\ \E c \in Callers :
       /\ calls[c].st = "rejected"
       /\ calls[c].val = "not connected"
       /\ Registered = Callers \ {c}
       /\ wire # {}

\* C9: a reply that carries a result (null and the falsy values included) and
\* no error resolves the pending request of its id with that result, removes
\* the entry and settles no other request
C9_ResultResolves ==
  [][\A f \in ResponseFrames :
       (/\ f.result # "undefined"
        /\ f.error = "undefined"
        /\ f.id \in DOMAIN requests
        /\ SocketData(f)) =>
         LET c == requests[f.id].caller
         IN /\ calls'[c].st = "resolved"
            /\ calls'[c].val = f.result
            /\ requests' = Delete(requests, f.id)
            /\ \A d \in Callers \ {c} : calls'[d] = calls[d]]_vars

\* C10: a reply that carries an error object and the id of a pending request
\* rejects that request with the remote error and the method it was made
\* with, removes the entry and leaves the other requests as they were
C10_ErrorRejectsOne ==
  [][\A f \in ResponseFrames :
       (/\ Truthy(f.error)
        /\ f.id \in DOMAIN requests
        /\ SocketData(f)) =>
         LET c == requests[f.id].caller
         IN /\ calls'[c].st = "rejected"
            /\ calls'[c].val = "RPC Error"
            /\ calls'[c].error = f.error
            /\ calls'[c].errMethod = calls[c].method
            /\ requests' = Delete(requests, f.id)
            /\ \A d \in Callers \ {c} : calls'[d] = calls[d]]_vars

C10_Witness ==
  \E c \in Callers :
    /\ calls[c].st = "rejected"
    /\ calls[c].val = "RPC Error"
    /\ calls[c].error = "errObj"
    /\ calls[c].errMethod = "blockchain.transaction.get"
    /\ \E d \in Callers \ {c} :
         /\ calls[d] = Pending("blockchain.scripthash.get_balance")
         /\ Registered = {d}

\* C20: registering a request never overwrites a pending entry: the id given
\* to a new request is the id of no request that is pending, so the entries
\* that were in the table are all still there, unchanged.
C20_PendingIdsDistinct ==
  [][\A c \in Callers, m \in Methods :
       (isConnected /\ MakeRequest(c, m)) =>
         \A id \in DOMAIN requests :
           id \in DOMAIN requests' /\ requests'[id] = requests[id]]_vars

\* C21: a subscription push emits the event its method names, with its
\* params, and leaves the table of pending requests as it was, whatever id
\* the frame carries.
C21_PushKeepsRequests ==
  [][\A f \in PushFrames :
       SocketData(f) =>
         /\ emitted'[1] = [name |-> f.method, arg |-> f.params]
         /\ requests' = requests]_vars

\* C32: once close() has been called and has set the status to DESTROYED,
\* the status is not changed again and no further status event is emitted.
C32_DestroyedIsTerminal ==
  [][closing # "no" => status' = status /\ statusEvent' = statusEvent]_vars

(***************************************************************************)
(* Claims about socket reads                                               *)
(***************************************************************************)
\* C22: a frame that is no subscription push and whose id is the id of no
\* pending request, be it a result or an error, makes the provider emit
\* request-error and changes no pending entry and no caller's promise.
C22_UnknownIdIsReported ==
  [][\A f \in {g \in ReadFrames : g.json /\ g.method = "undefined"} :
       (/\ f.id \notin DOMAIN requests
        /\ SocketRead(<<[frame |-> f, part |-> "whole"]>>)) =>
         /\ emitted' = <<[name |-> "request-error", arg |-> "no handler"]>>
         /\ requests' = requests
         /\ calls' = calls]_vars

\* the step is the handling of a read; the read is then lastRead'
ReadStep == lastRead' # <<>> /\ SocketRead(lastRead')

\* a read without its i-th piece
WithoutPiece(read, i) == SubSeq(read, 1, i - 1) \o SubSeq(read, i + 1, Len(read))

\* C23: a line that is not valid JSON makes the provider emit request-error
\* and changes nothing else: the status and the socket stay as they are, and
\* the requests, the promises and the other events of the read are those of
\* the same read without that line, so the lines after it are handled.
C23_GarbageLineOnlyReported ==
  [][ReadStep => \A i \in 1..Len(lastRead') :
       (lastRead'[i].part = "whole" /\ ~lastRead'[i].frame.json) =>
         LET r == lastRead'
             before == forEachPiece(Provider, SubSeq(r, 1, i - 1))
             ref == forEachPiece(Provider, WithoutPiece(r, i))
             n == Len(before.emitted)
         IN /\ status' = status
            /\ client' = client
            /\ requests' = ref.requests
            /\ calls' = ref.calls
            /\ block_height' = ref.block_height
            /\ emitted' = before.emitted
                            \o <<[name |-> "request-error", arg |-> "parse"]>>
                            \o SubSeq(ref.emitted, n + 1, Len(ref.emitted))]_vars

\* a read whose first line is not JSON and whose second line answered the
\* pending request
C23_Witness ==
  /\ Len(lastRead) = 2
  /\ lastRead[1].part = "whole" /\ ~lastRead[1].frame.json
  /\ lastRead[2].part = "whole" /\ lastRead[2].frame.result = "obj"
  /\ status = "CONNECTED"
  /\ calls["c1"].st = "resolved"
  /\ requests = <<>>
  /\ emitted = <<[name |-> "request-error", arg |-> "parse"]>>

\* the lines of a read had no line been cut: the first part of a cut line
\* waits for its rest, and the rest completes the line
RECURSIVE AsWholeLines(_)
AsWholeLines(read) ==
  IF read = <<>> THEN <<>>
  ELSE IF Head(read).part = "head" THEN AsWholeLines(Tail(read))
  ELSE <<[Head(read) EXCEPT !.part = "whole"]>> \o AsWholeLines(Tail(read))

\* C24: a line cut by the end of a read is handled as if it had come in one
\* read: nothing happens for its first part, and when its rest comes the
\* whole line is handled, once.
C24_SplitLineAsOneRead ==
  [][ReadStep =>
         LET ref == forEachPiece(Provider, AsWholeLines(lastRead'))
         IN /\ requests' = ref.requests
            /\ calls' = ref.calls
            /\ block_height' = ref.block_height
            /\ emitted' = ref.emitted]_vars

(***************************************************************************)
(* Claims about the transaction builder                                    *)
(***************************************************************************)
\* C11: when a send() call has failed, for whatever cause, none of the UTXOs
\* that call selected is still locked.
C11_FailureReleasesLocks ==
  sendCall.pc = "failed" => sendCall.selected \cap lockedUtxos = {}

\* C12: when a send() call has returned or thrown, it has called
\* unlockUtxo(true), and had addSentTx store the outgoing record, exactly when
\* the broadcast succeeded; when the broadcast failed, by a rejection or by a
\* reply with a message, it has called unlockUtxo(false) and thrown.
C12_SuccessOnlyEffects ==
  sendCall.pc \in {"done", "failed"} =>
    /\ sendCall.broadcast = "ok" <=> sendCall.unlockUtxo = "true"
    /\ sendCall.broadcast = "ok" <=> sendCall.addSentTx
    /\ sendCall.broadcast \in {"message", "rejected"} =>
          sendCall.unlockUtxo = "false" /\ sendCall.pc = "failed"

\* C13: the fee declared for the transaction send() broadcasts is the fee
\* rate times the virtual size of that transaction, to within 1 satoshi.
C13_FeeIsRateTimesSize ==
  sendCall.broadcast # "none" =>
    LET diff == sendCall.hex.fee - sendCall.opts.fee * sendCall.hex.vSize
    IN  diff \in (0 - 1)..1

\* C14: every transaction the builder makes pays sendAmount to the recipient
\* in its first output and has a second output, the change, only when the
\* change is not 0; the change is 0 or at least DUST_LIMIT; and the
\* transaction that is broadcast is the one the finalize pass made last.
C14_OutputsAndChange ==
  /\ \A i \in 1..Len(txData) :
        /\ txData[i].vout[1] = sendCall.opts.amount
        /\ \/ txData[i].change = 0 /\ Len(txData[i].vout) = 1
           \/ /\ txData[i].change >= DUST_LIMIT
              /\ txData[i].vout = <<sendCall.opts.amount, txData[i].change>>
  /\ sendCall.broadcast # "none" =>
        /\ sendCall.hex.pass = "final"
        /\ sendCall.hex = txData[Len(txData)]

\* a send that was broadcast after the finalize pass fetched a larger UTXO set
C14_Witness ==
  /\ sendCall.broadcast = "ok"
  /\ sendCall.hex.utxo # sendCall.utxoSet.utxo
  /\ Len(sendCall.hex.vout) = 2
  /\ Len(txData) >= 2

\* the limit the claim gives a Transaction built from config
ConfiguredLimit(config) ==
  IF config.max_fee_limit = 0 THEN DefaultMaxFeeLimit ELSE config.max_fee_limit

\* C15: _createTransaction rejects with the invalid-fee error exactly when the
\* fee is missing, not positive, or above the configured max_fee_limit
\* (100000 when none is configured); then no change address has been derived
\* and no UTXO selected.
C15_InvalidFeeExactly ==
  sendCall.pc # "idle" =>
    /\ sendCall.error = "Invalid fee" <=>
          \/ ~sendCall.opts.hasFee
          \/ sendCall.opts.fee <= 0
          \/ sendCall.opts.fee > ConfiguredLimit(sendCall.config)
    /\ sendCall.error = "Invalid fee" =>
          ~sendCall.changeAddr /\ sendCall.selected = {}

\* C25: in one pass of the builder the UTXOs are re-requested at most once:
\* when the enlarged set still leaves a change below dust the send fails,
\* it does not go on with a third set.
C25_OneRerequestPerPass == sendCall.rerequests <= 1

(***************************************************************************)
(* Claims about the wallet                                                 *)
(***************************************************************************)
\* C16: however getNewAddress and _getInternalAddress calls interleave, the
\* index a call takes on a chain is greater than every index taken on that
\* chain before, and no two calls return the same path.
C16_IndexStrictlyIncreases ==
  /\ \A ch \in {"ext", "in"} : \A i, j \in 1..Len(handedOut[ch]) :
        i < j => handedOut[ch][i] < handedOut[ch][j]
  /\ \A a, b \in AddrCallers :
        (a # b /\ addrCalls[a].pc # "idle" /\ addrCalls[b].pc # "idle") =>
          addrCalls[a].addr # addrCalls[b].addr

\* two calls on one chain are both suspended at watchAddress
C16_Witness ==
  \E a, b \in AddrCallers :
    /\ a # b
    /\ addrCalls[a].pc = "watching" /\ addrCalls[b].pc = "watching"
    /\ addrCalls[a].addr.change = addrCalls[b].addr.change

\* C17: when destroy() was called while syncTransactions was running, nothing
\* is closed before that sync has emitted sync-end.
C17_DestroyAwaitsSyncEnd ==
  (destroyCall.syncRunning /\ closed # <<>>) => destroyCall.syncEnded

C18_CachedZeroHeightRefetched ==
  /\ [](\A c \in TxGetCallers :
         LET call == txGetCalls[c]
             hit  == call.cache /\ call.cacheValue.present /\ call.cacheValue.height # 0
         IN  call.pc = "returned" =>
               /\ hit => ~call.sent /\ call.height = call.cacheValue.height
               /\ ~hit => call.sent)
  /\ [][\A c \in TxGetCallers :
          (txGetCalls[c].pc = "cache.set" /\ txGetCalls'[c].pc = "returned") =>
            cacheStore'[txGetCalls[c].txid] =
              [present |-> TRUE, height |-> txGetCalls'[c].height]]_vars

\* a call found the txid cached with height 0, sent the request and returned
\* while the cache holds what it returned
C18_Witness ==
  \E c \in TxGetCallers :
    /\ txGetCalls[c].pc = "returned"
    /\ txGetCalls[c].cacheValue = [present |-> TRUE, height |-> 0]
    /\ txGetCalls[c].sent
    /\ txGetCalls[c].height # 0
    /\ cacheStore[txGetCalls[c].txid].height = txGetCalls[c].height

\* C31: a transaction whose reply reports one confirmation or more is given
\* a height above 0, whatever block_height is when the reply is handled.
C31_ConfirmedHeightPositive ==
  [][\A caller \in TxGetCallers, confirmations \in Confirmations :
       (confirmations >= 1 /\ TxGetReply(caller, confirmations)) =>
         txGetCalls'[caller].height > 0]_vars

(***************************************************************************)
(* Claims about the RequestCache                                           *)
(***************************************************************************)
\* the keys that hold an entry
Cached == {k \in Txids : rcStore[k].present}

\* C26: whatever set calls were made, the cache holds at most
\* max_cache_size entries.
C26_SizeWithinCapacity == Cardinality(Cached) <= requestCache._max_cache_size

\* C27: an entry set without an expiry of its own expires cache_timeout
\* after it was set, and get returns no entry whose expiry lies more than
\* one sweep interval back.
C27_ExpiredNotReturned ==
  /\ \A k \in Cached :
       rcStore[k].given = 0 =>
         rcStore[k].expiry = rcStore[k].setAt + requestCache._cache_expiry
  /\ (lastGet.hit /\ lastGet.given = 0) =>
       lastGet.at <= lastGet.expiry + requestCache.config.cache_interval

(***************************************************************************)
(* Claims about the transaction history                                    *)
(***************************************************************************)
\* C19: after storeTx(tx), getHeight(tx.txid) is tx.height, the key
\* i:<tx.height>:<txid> holds tx, and neither i:0:<txid> nor
\* i:<tx.height - 1>:<txid> is in the store, unless it is the key just written.
C19_StoreTxRoundTrip ==
  lastStoreTx.op = "storeTx" =>
    LET tx      == lastStoreTx.tx
        written == IndexKey(tx.height, tx.txid)
    IN  /\ getHeight(tx.txid) = tx.height
        /\ written \in DOMAIN history /\ history[written] = tx
        /\ \A k \in {IndexKey(0, tx.txid), IndexKey(tx.height - 1, tx.txid)} :
              k # written => k \notin DOMAIN history

\* a transaction that had the mempool key i:0:<txid> was stored at a height
\* above 1
C19_Witness ==
  /\ lastStoreTx.op = "storeTx"
  /\ lastStoreTx.tx.height > 1
  /\ lastStoreTx.hadMempoolKey

\* the views stored under the keys i:<height>:<txid> of a store
StoredAt(store, height) ==
  {store[k] : k \in {IndexKey(height, t) : t \in Txids} \cap DOMAIN store}

\* C29: getTxHeight(h) returns the views stored under the keys i:<h>:<txid>,
\* all of them and no other, for every height h.
C29_GetTxHeightExact ==
  [][\A h \in TxHeights :
       GetTxHeight(h) => lastGetTxHeight'.results = StoredAt(history, h)]_vars

\* C30: for every txid the store holds at most one key i:<height>:<txid>,
\* and its height is the one getHeight(txid) returns.
C30_OneIndexKeyPerTxid ==
  \A t \in Txids : \A h \in TxHeights :
    IndexKey(h, t) \in DOMAIN history => h = getHeight(t)

=============================================================================
